---- MODULE Spec2Model ----
(***************************************************************************)
(* typemyjs: runtime schema validation and method guarding.                *)
(*                                                                         *)
(* JavaScript values are records tagged by the field t:                    *)
(*   [t |-> "num", n |-> k]   a finite number                              *)
(*   [t |-> "inf"], [t |-> "ninf"], [t |-> "nan"]   the other numbers      *)
(*   [t |-> "str", s |-> <<..>>]   a string, as its sequence of characters *)
(*   [t |-> "null"], [t |-> "undefined"]                                   *)
(* A plain object is a function from its own keys to values; a property    *)
(* that is absent reads as undefined.                                      *)
(***************************************************************************)
EXTENDS Integers, Sequences, FiniteSets, TLC

VARIABLES
    validationObject,  \* the schema handed to wrapWithType
    proto,             \* classObject.prototype: method name -> interceptor layers
    wrapped,           \* a factory has been returned by wrapWithType(schema)(Class)
    target,            \* the instance most recently returned by the factory
    ctorRuns,          \* how many times the user's constructor has run
    last,              \* what the most recent operation was given and produced
    input,             \* field validators on their own: configuration and value
    output             \* field validators on their own: validate()'s result

vars == <<validationObject, proto, wrapped, target, ctorRuns, last, input, output>>

mainVars == <<validationObject, proto, wrapped, target, ctorRuns, last>>

-----------------------------------------------------------------------------
(* Error codes *)

NULL_OR_UNDEFINED == 100
NAN == 200
OUT_OF_RANGE == 300
MISMATCH_PARAMETERS == 400
UNDEFINED_OR_NULL_ATTRIBUTES == 500

-----------------------------------------------------------------------------
(* Bounds *)

MaxNum == 2        \* finite numbers range over -1 .. MaxNum
MaxMinLength == 2  \* minLength configurations range over 0 .. MaxMinLength
MaxCalls == 2      \* method calls made on one instance
MaxCtorRuns == 2   \* instances constructed
MaxWraps == 2      \* applications of wrapWithType(schema) to the class

-----------------------------------------------------------------------------
(* Values *)

null == [t |-> "null"]
undefined == [t |-> "undefined"]
NaN == [t |-> "nan"]
Infinity == [t |-> "inf"]
NegInfinity == [t |-> "ninf"]
Num(k) == [t |-> "num", n |-> k]
Str(chars) == [t |-> "str", s |-> chars]

\* typeof value, for the value kinds modelled
TypeOf(value) ==
    CASE value.t \in {"num", "inf", "ninf", "nan"} -> "number"
      [] value.t = "str" -> "string"
      [] value.t = "undefined" -> "undefined"
      [] OTHER -> "object"

\* a >= b on numbers: false whenever either side is NaN
JsGE(a, b) ==
    CASE a.t = "nan" \/ b.t = "nan" -> FALSE
      [] a.t = "inf" -> TRUE
      [] b.t = "ninf" -> TRUE
      [] a.t = "ninf" -> FALSE
      [] b.t = "inf" -> FALSE
      [] OTHER -> a.n >= b.n

\* a < b on numbers: false whenever either side is NaN
JsLT(a, b) ==
    CASE a.t = "nan" \/ b.t = "nan" -> FALSE
      [] a.t = "inf" -> FALSE
      [] b.t = "ninf" -> FALSE
      [] a.t = "ninf" -> TRUE
      [] b.t = "inf" -> TRUE
      [] OTHER -> a.n < b.n

\* obj[key] for a plain object
Get(obj, key) == IF key \in DOMAIN obj THEN obj[key] ELSE undefined

\* Array.prototype.filter, keeping order and duplicates
RECURSIVE Filter(_, _)
Filter(seq, keep) ==
    IF seq = <<>> THEN <<>>
    ELSE IF Head(seq) \in keep
         THEN <<Head(seq)>> \o Filter(Tail(seq), keep)
         ELSE Filter(Tail(seq), keep)

Range(seq) == {seq[i] : i \in 1..Len(seq)}

-----------------------------------------------------------------------------
(* NumberType(validationObject)(value).validate()                          *)
(* The configuration is a record that has a field range = <<lo, hi>> when  *)
(* a range is configured.                                                   *)

\* mutant: the upper bound is taken as included
NumberIsInRangeClosed(config, value) ==
    IF "range" \in DOMAIN config
    THEN JsGE(value, config.range[1]) /\ JsGE(config.range[2], value)
    ELSE TRUE

\* mutant: in range unless below the lower or at or above the upper bound
NumberIsInRangeNegated(config, value) ==
    IF "range" \in DOMAIN config
    THEN ~(JsLT(value, config.range[1]) \/ JsGE(value, config.range[2]))
    ELSE TRUE

NumberIsInRange(config, value) ==
    IF "range" \in DOMAIN config
    THEN JsGE(value, config.range[1]) /\ JsLT(value, config.range[2])
    ELSE TRUE

NumberType(config, value) ==
    LET isNumber == TypeOf(value) = "number" IN
    IF ~isNumber \/ value = Str(<<"u","n","d","f","i","n","e","d">>) \/ value = null
    THEN [error |-> TRUE,
          payload |-> {[code |-> NULL_OR_UNDEFINED, data |-> null]}]
    ELSE
      LET isNotNan == value.t # "nan"
          isInRange == NumberIsInRange(config, value)
          errorPayload == << <<isNotNan, NAN>>,
                             <<isNumber, NULL_OR_UNDEFINED>>,
                             <<isInRange, OUT_OF_RANGE>> >>
          generatedErrors == {i \in 1..3 : errorPayload[i][1] = FALSE}
          payload == {[code |-> errorPayload[i][2],
                       data |-> IF errorPayload[i][2] = OUT_OF_RANGE
                                THEN [t |-> "range", lo |-> config.range[1],
                                      hi |-> config.range[2]]
                                ELSE null] : i \in generatedErrors}
      IN IF generatedErrors # {}
         THEN [payload |-> payload, error |-> TRUE]
         ELSE [error |-> FALSE]

-----------------------------------------------------------------------------
(* StringType(validationObject)(value).validate()                          *)
(* The configuration is a record with the optional fields minLength (a     *)
(* natural number) and oneOf (a sequence of strings).  The outcome is      *)
(* [threw |-> "TypeError"] when reading value.length throws.               *)

TypeError == [threw |-> "TypeError"]

Threw(r) == "threw" \in DOMAIN r

StringIsInRange(config, value) ==
    IF "minLength" \in DOMAIN config /\ config.minLength # 0
    THEN IF value.t = "str" THEN Len(value.s) >= config.minLength ELSE FALSE
    ELSE TRUE

StringIsOneOf(config, value) ==
    IF "oneOf" \in DOMAIN config
    THEN \E i \in 1..Len(config.oneOf) : config.oneOf[i] = value
    ELSE TRUE

StringType(config, value) ==
    IF "minLength" \in DOMAIN config /\ config.minLength # 0
       /\ value.t \in {"null", "undefined"}
    THEN TypeError
    ELSE
      LET isInRange == StringIsInRange(config, value)
          isOneOf == StringIsOneOf(config, value)
          payload == [isInRange |-> isInRange, isOneOf |-> isOneOf]
      IN IF ~isInRange \/ ~isOneOf
         THEN IF ~isOneOf
              THEN [payload |-> payload, error |-> TRUE,
                    validStringTypes |-> config.oneOf]
              ELSE payload
         ELSE [payload |-> payload, error |-> FALSE]

-----------------------------------------------------------------------------
(* Schemas.  A schema maps a key to an entry:                              *)
(*   [kind |-> "NumberType", config |-> c]   Types.NumberType(c)           *)
(*   [kind |-> "StringType", config |-> c]   Types.StringType(c)           *)
(*   [kind |-> "FunctionType", ...]          Types.FunctionType({...}),    *)
(*       with the optional fields requiredParams (a sequence of names) and *)
(*       requiredAttributes (a sequence of [name, accessor], in the key     *)
(*       order of the object)                                              *)
(*   [kind |-> "Array", items |-> <<..>>]    under __constructorParameters *)

RED == Str(<<"R", "E", "D">>)
Short == Str(<<"R">>)

Identity == "a => a"
Negate == "a => -a"
NoAccessor == "true"

\* the schema of the README
AreaType ==
    [length |-> [kind |-> "NumberType", config |-> [range |-> <<Num(0), Num(MaxNum)>>]],
     width |-> [kind |-> "NumberType", config |-> <<>>],
     calculateArea |->
        [kind |-> "FunctionType",
         requiredAttributes |-> <<[name |-> "length", accessor |-> Identity],
                                  [name |-> "width", accessor |-> Identity]>>]]

\* the same with a list of required constructor parameters and with required
\* call parameters
StrictAreaType ==
    [__constructorParameters |-> [kind |-> "Array", items |-> <<"length", "width">>],
     length |-> [kind |-> "NumberType", config |-> [range |-> <<Num(0), Num(MaxNum)>>]],
     width |-> [kind |-> "NumberType", config |-> <<>>],
     calculateArea |->
        [kind |-> "FunctionType",
         requiredParams |-> <<"scale", "unit">>,
         requiredAttributes |-> <<[name |-> "length", accessor |-> Identity],
                                  [name |-> "width", accessor |-> Identity]>>]]

\* a schema that requires the attribute width of calculateArea and has no
\* validator for it
NoWidthType ==
    [length |-> [kind |-> "NumberType", config |-> [range |-> <<Num(0), Num(MaxNum)>>]],
     calculateArea |->
        [kind |-> "FunctionType",
         requiredAttributes |-> <<[name |-> "length", accessor |-> Identity],
                                  [name |-> "width", accessor |-> Identity]>>]]

\* a schema with a string field
ColorType ==
    [length |-> [kind |-> "NumberType", config |-> [range |-> <<Num(0), Num(MaxNum)>>]],
     color |-> [kind |-> "StringType", config |-> [minLength |-> 2]],
     calculateArea |->
        [kind |-> "FunctionType",
         requiredParams |-> <<"scale">>,
         requiredAttributes |-> <<[name |-> "color", accessor |-> NoAccessor],
                                  [name |-> "length", accessor |-> Negate]>>]]

Schemas == {AreaType, StrictAreaType, NoWidthType, ColorType}

\* the own method names of the class's prototype, apart from constructor
MethodsOnClass == {"calculateArea", "describe"}

\* typeof x === 'object' && `${x}` !== 'null', for plain objects and values
IsObject(x) == "t" \notin DOMAIN x

\* validationObject.__constructorParameters &&
\* Array.isArray(validationObject.__constructorParameters)
HasConstructorParameters(schema) ==
    /\ "__constructorParameters" \in DOMAIN schema
    /\ schema["__constructorParameters"].kind = "Array"

\* schema[key](value).validate()
Validate(schema, key, value) ==
    IF key \notin DOMAIN schema THEN TypeError
    ELSE CASE schema[key].kind = "NumberType" -> NumberType(schema[key].config, value)
           [] schema[key].kind = "StringType" -> StringType(schema[key].config, value)
           [] OTHER -> TypeError

\* result.error, read as a condition
ResultError(result) == "error" \in DOMAIN result /\ result.error

-----------------------------------------------------------------------------
(* validateObjectConstruction(constructorArgument, validationObject)       *)

\* mutant: keeps the names that are supplied instead of those that are not
ParamDiffPresent(required, supplied) ==
    Filter(required, supplied)

\* mutant: stops at the first name that is missing
ParamDiffFirst(required, supplied) ==
    LET missing == Filter(required, Range(required) \ supplied) IN
    IF missing = <<>> THEN <<>> ELSE <<Head(missing)>>

ParamDiff(required, supplied) ==
    Filter(required, Range(required) \ supplied)

ConstructionFailures(constructorArgument, schema) ==
    {arg \in DOMAIN constructorArgument \cap DOMAIN schema :
        ResultError(Validate(schema, arg, constructorArgument[arg]))}

validateObjectConstruction(constructorArgument, schema) ==
    IF ~IsObject(constructorArgument)
    THEN [threw |-> "Error",
          message |-> "Must pass a valid object to the constructor function."]
    ELSE IF /\ HasConstructorParameters(schema)
            /\ ParamDiff(schema["__constructorParameters"].items,
                         DOMAIN constructorArgument) # <<>>
    THEN [threw |-> "Error",
          message |-> "Mismatch constructor argument.",
          expected |-> schema["__constructorParameters"].items,
          got |-> DOMAIN constructorArgument]
    ELSE IF \E arg \in DOMAIN constructorArgument \cap DOMAIN schema :
                Threw(Validate(schema, arg, constructorArgument[arg]))
    THEN TypeError
    ELSE LET failed == ConstructionFailures(constructorArgument, schema) IN
         [error |-> failed # {},
          errorPayload |-> [arg \in failed |->
                               Validate(schema, arg, constructorArgument[arg])]]

-----------------------------------------------------------------------------
(* The user's class.  Its constructor keeps the fields of its argument as  *)
(* attributes; each method counts its calls on the instance and returns    *)
(* what it was called on and with.                                         *)

Attributes == {"length", "width", "color"}

NoInstance == [t |-> "none"]

Constructor(args) == [attrs |-> [k \in Attributes |-> Get(args, k)], calls |-> 0]

Body(method, tgt, argumentObject) ==
    [value |-> [method |-> method, self |-> tgt.attrs, arg |-> argumentObject],
     target |-> [tgt EXCEPT !.calls = @ + 1]]

\* accessor(value), for the accessors of the schemas
Apply(accessor, value) ==
    IF accessor = Identity THEN value
    ELSE CASE value.t = "num" -> Num(0 - value.n)
           [] value.t = "inf" -> NegInfinity
           [] value.t = "ninf" -> Infinity
           [] value.t = "null" -> Num(0)
           [] OTHER -> NaN

-----------------------------------------------------------------------------
(* requiredFunctionParameters(validationObject, requiredArgumentList,      *)
(* requiredAttributes)(func)(argumentObject), called on the instance tgt.  *)
(* A layer holds the requiredArgumentList and requiredAttributes one       *)
(* interceptor closes over; func is the sequence of layers under it, the   *)
(* empty sequence being the class's own method.  The outcome is the value  *)
(* returned or thrown and the instance as the call leaves it.              *)

\* val, lines 254-260
AttributeValue(attribute, tgt) ==
    IF attribute.accessor \in {Identity, Negate}
    THEN Apply(attribute.accessor, Get(tgt.attrs, attribute.name))
    ELSE Get(tgt.attrs, attribute.name)

\* validator(val).validate(), lines 261-262
AttributeResult(schema, attribute, tgt) ==
    Validate(schema, attribute.name, AttributeValue(attribute, tgt))

HasRequiredParams(layer) == "requiredParams" \in DOMAIN layer

HasRequiredAttributes(layer) ==
    /\ "requiredAttributes" \in DOMAIN layer
    /\ Len(layer.requiredAttributes) # 0

\* mutant: hands back what the original method returned as it is
CallOriginalBare(inner) == inner

\* { error: false, result: func.bind(target)(argumentObject) }
CallOriginal(inner) ==
    IF Threw(inner.value) THEN inner
    ELSE [value |-> [error |-> FALSE, result |-> inner.value],
          target |-> inner.target]

RECURSIVE Invoke(_, _, _, _, _)

requiredFunctionParameters(schema, layer, func, method, tgt, argumentObject) ==
    IF HasRequiredParams(layer) /\ ~IsObject(argumentObject)
    THEN [value |-> [threw |-> "Error",
                     message |-> "Must pass a valid object to the function."],
          target |-> tgt]
    ELSE IF /\ HasRequiredParams(layer)
            /\ ParamDiff(layer.requiredParams, DOMAIN argumentObject) # <<>>
    THEN [value |-> [error |-> TRUE,
                     errorPayload |->
                        [code |-> MISMATCH_PARAMETERS,
                         data |-> ParamDiff(layer.requiredParams,
                                            DOMAIN argumentObject),
                         message |-> "Parameters missing."]],
          target |-> tgt]
    ELSE IF /\ HasRequiredAttributes(layer)
            /\ \E i \in 1..Len(layer.requiredAttributes) :
                  Threw(AttributeResult(schema, layer.requiredAttributes[i], tgt))
    THEN [value |-> TypeError, target |-> tgt]
    ELSE LET failed ==
               IF HasRequiredAttributes(layer)
               THEN {i \in 1..Len(layer.requiredAttributes) :
                       ResultError(AttributeResult(schema,
                                       layer.requiredAttributes[i], tgt))}
               ELSE {}
         IN IF failed # {}
            THEN [value |->
                    [error |-> TRUE,
                     code |-> UNDEFINED_OR_NULL_ATTRIBUTES,
                     errorPayload |->
                        [a \in {layer.requiredAttributes[i].name : i \in failed} |->
                            LET i == CHOOSE j \in failed :
                                        layer.requiredAttributes[j].name = a
                            IN AttributeResult(schema,
                                               layer.requiredAttributes[i], tgt)]],
                  target |-> tgt]
            ELSE CallOriginal(Invoke(func, schema, method, tgt, argumentObject))

\* calling the method installed as layers on tgt
Invoke(layers, schema, method, tgt, argumentObject) ==
    IF layers = <<>>
    THEN Body(method, tgt, argumentObject)
    ELSE requiredFunctionParameters(schema, layers[Len(layers)],
                                    SubSeq(layers, 1, Len(layers) - 1),
                                    method, tgt, argumentObject)

-----------------------------------------------------------------------------
(* wrapWithType(validationObject)(classObject)                             *)

\* what one interceptor closes over: requiredList and requiredAttributes
Layer(entry) ==
    [k \in DOMAIN entry \cap {"requiredParams", "requiredAttributes"} |-> entry[k]]

\* the methods replaced: those on the class that are keys of the schema
MethodsToWrap(schema, methods) == methods \cap DOMAIN schema

\* mutant: builds the interceptors and does not install them
WrapPrototypeNotInstalled(schema, prototype) == prototype

WrapPrototype(schema, prototype) ==
    [method \in DOMAIN prototype |->
        IF method \in MethodsToWrap(schema, DOMAIN prototype)
        THEN Append(prototype[method], Layer(schema[method]))
        ELSE prototype[method]]

\* the condition under which the factory validates its argument
FactoryValidates(schema, args) ==
    \/ HasConstructorParameters(schema)
    \/ (IsObject(args) /\ DOMAIN args # {})

\* the factory returned: the value it throws, or [instance |-> target]
Factory(schema, args) ==
    IF /\ ~HasConstructorParameters(schema)
       /\ ~IsObject(args)
       /\ args.t \in {"null", "undefined"}
    THEN TypeError
    ELSE IF FactoryValidates(schema, args)
    THEN LET v == validateObjectConstruction(args, schema) IN
         IF Threw(v) THEN v
         ELSE IF v.error THEN v
         ELSE [instance |-> Constructor(args)]
    ELSE [instance |-> Constructor(args)]

-----------------------------------------------------------------------------
(* Inputs *)

Finite == {Num(k) : k \in -1..MaxNum}

LengthValues == {Num(0), Num(1), Num(MaxNum)}
WidthValues == {Num(1)}
ColorValues == {RED, Short}

ObjectsOver(keys) ==
    {o \in UNION {[K -> LengthValues \cup WidthValues \cup ColorValues] :
                     K \in SUBSET keys} :
        /\ "length" \in DOMAIN o => o["length"] \in LengthValues
        /\ "width" \in DOMAIN o => o["width"] \in WidthValues
        /\ "color" \in DOMAIN o => o["color"] \in ColorValues}

ConstructorArguments == ObjectsOver(Attributes) \cup {null, Num(1)}

CallArguments ==
    UNION {[K -> {Num(1)}] : K \in SUBSET {"scale", "unit"}} \cup {null}

-----------------------------------------------------------------------------
(* The class, its factory and its instances *)

Init ==
    /\ validationObject \in Schemas
    /\ proto = [method \in MethodsOnClass |-> <<>>]
    /\ wrapped = 0
    /\ target = NoInstance
    /\ ctorRuns = 0
    /\ last = [op |-> "none"]
    /\ input = <<>>
    /\ output = [pending |-> TRUE]

\* Class = wrapWithType(validationObject)(Class), lines 319-351
Wrap ==
    /\ wrapped < MaxWraps
    /\ proto' = WrapPrototype(validationObject, proto)
    /\ wrapped' = wrapped + 1
    /\ last' = [op |-> "wrap"]
    /\ UNCHANGED <<validationObject, target, ctorRuns, input, output>>

\* factory(args), lines 336-350
Construct(args) ==
    /\ wrapped > 0
    /\ ctorRuns < MaxCtorRuns
    /\ LET r == Factory(validationObject, args) IN
         IF "instance" \in DOMAIN r
         THEN /\ target' = r.instance
              /\ ctorRuns' = ctorRuns + 1
              /\ last' = [op |-> "construct", arg |-> args, value |-> r.instance]
         ELSE /\ last' = [op |-> "construct", arg |-> args, value |-> r]
              /\ UNCHANGED <<target, ctorRuns>>
    /\ UNCHANGED <<validationObject, proto, wrapped, input, output>>

\* target[method](argumentObject)
Call(method, argumentObject) ==
    /\ target # NoInstance
    /\ target.calls < MaxCalls
    /\ LET r == Invoke(proto[method], validationObject, method, target,
                       argumentObject)
       IN /\ target' = r.target
          /\ last' = [op |-> "call", method |-> method, arg |-> argumentObject,
                      before |-> target, value |-> r.value]
    /\ UNCHANGED <<validationObject, proto, wrapped, ctorRuns, input, output>>

Next ==
    \/ Wrap
    \/ \E args \in ConstructorArguments : Construct(args)
    \/ \E method \in MethodsOnClass, argumentObject \in CallArguments :
          Call(method, argumentObject)

Spec == Init /\ [][Next]_vars

-----------------------------------------------------------------------------
(* The field validators on their own: a configuration and a value are      *)
(* drawn, and validate() is applied to them.                               *)

Pending == [pending |-> TRUE]

Numbers == Finite \cup {Infinity, NegInfinity, NaN}

NumberConfigs == {<<>>} \cup {[range |-> <<lo, hi>>] : lo \in Numbers, hi \in Numbers}

NumberInputs ==
    Numbers \cup {null, undefined, RED, Str(<<"u","n","d","f","i","n","e","d">>)}

StringConfigs ==
    LET lengths == {<<>>} \cup {[minLength |-> k] : k \in 0..MaxMinLength}
        lists == {<<>>, [oneOf |-> <<>>], [oneOf |-> <<RED>>],
                  [oneOf |-> <<RED, Short>>]}
    IN {l @@ o : l \in lengths, o \in lists}

StringInputs == {Str(<<>>), Short, Str(<<"R", "E">>), RED}

IdleClass ==
    /\ validationObject = AreaType
    /\ proto = [method \in MethodsOnClass |-> <<>>]
    /\ wrapped = 0
    /\ target = NoInstance
    /\ ctorRuns = 0
    /\ last = [op |-> "none"]

InitNumber ==
    /\ IdleClass
    /\ input \in [config : NumberConfigs, value : NumberInputs]
    /\ output = Pending

\* NumberType(input.config)(input.value).validate()
ValidateNumber ==
    /\ output = Pending
    /\ output' = NumberType(input.config, input.value)
    /\ UNCHANGED <<input, mainVars>>

NextNumber == ValidateNumber

SpecNumber == InitNumber /\ [][NextNumber]_vars

InitString ==
    /\ IdleClass
    /\ input \in [config : StringConfigs, value : StringInputs]
    /\ output = Pending

\* StringType(input.config)(input.value).validate()
ValidateString ==
    /\ output = Pending
    /\ output' = StringType(input.config, input.value)
    /\ UNCHANGED <<input, mainVars>>

NextString == ValidateString

SpecString == InitString /\ [][NextString]_vars

-----------------------------------------------------------------------------
(* What the rules of a field mean, stated apart from the validators        *)

\* the position of a number other than NaN on the extended number line
Ord(x) ==
    CASE x.t = "ninf" -> 0 - (MaxNum + 10)
      [] x.t = "inf" -> MaxNum + 10
      [] OTHER -> x.n

IsNumeric(value) == value.t \in {"num", "inf", "ninf", "nan"}

\* lo <= v < hi
Within(v, lo, hi) ==
    /\ v.t # "nan" /\ lo.t # "nan" /\ hi.t # "nan"
    /\ Ord(lo) <= Ord(v)
    /\ Ord(v) < Ord(hi)

Validated == output # Pending

RangeConfigured == "range" \in DOMAIN input.config

CodesOf(result) == {e.code : e \in result.payload}

-----------------------------------------------------------------------------
(* C4 *)

\* C4 as claimed: for a numeric value v and a configured range [lo, hi),
\* validate().error is false if and only if lo <= v < hi and v is finite.
C4_Claimed ==
    (Validated /\ RangeConfigured /\ IsNumeric(input.value)) =>
        (output.error = FALSE <=>
            /\ Within(input.value, input.config.range[1], input.config.range[2])
            /\ input.value.t = "num")

\* C4, amended: for a numeric value v and a configured range [lo, hi),
\* validate().error is false if and only if lo <= v < hi (so v is not NaN);
\* v is then finite unless lo is -Infinity, and with lo = -Infinity the value
\* -Infinity is accepted.
C4_RangeAccepts ==
    (Validated /\ RangeConfigured /\ IsNumeric(input.value)) =>
        LET lo == input.config.range[1]
            hi == input.config.range[2]
        IN /\ output.error = FALSE <=> Within(input.value, lo, hi)
           /\ (lo # NegInfinity /\ output.error = FALSE) => input.value.t = "num"

C4_Witness ==
    /\ Validated /\ RangeConfigured
    /\ input.value = NegInfinity
    /\ input.config.range = <<NegInfinity, Num(1)>>
    /\ output.error = FALSE

-----------------------------------------------------------------------------
(* C6 *)

\* C6: a value that is not a number, or null, or NaN is an error; a value
\* that is not a number (null included) yields the payload holding the code 100
\* alone; NaN yields the code 200, not the code 100, and the code 300 with
\* the configured range exactly when a range is configured.
C6_NonNumbers ==
    Validated =>
        /\ ~IsNumeric(input.value) =>
              /\ output.error = TRUE
              /\ output.payload = {[code |-> 100, data |-> null]}
        /\ input.value = NaN =>
              /\ output.error = TRUE
              /\ 200 \in CodesOf(output)
              /\ 100 \notin CodesOf(output)
              /\ IF RangeConfigured
                 THEN output.payload =
                        {[code |-> 200, data |-> null],
                         [code |-> 300,
                          data |-> [t |-> "range", lo |-> input.config.range[1],
                                    hi |-> input.config.range[2]]]}
                 ELSE output.payload = {[code |-> 200, data |-> null]}

C6_Witness ==
    /\ Validated
    /\ input.value = NaN
    /\ RangeConfigured
    /\ CodesOf(output) = {200, 300}

-----------------------------------------------------------------------------
(* C5 *)

\* value.length < minLength, with minLength configured
TooShort(config, value) ==
    "minLength" \in DOMAIN config /\ Len(value.s) < config.minLength

\* value is not on the configured allow-list
NotAllowed(config, value) ==
    "oneOf" \in DOMAIN config /\ value \notin Range(config.oneOf)

\* C5: when the value is shorter than the configured minLength or is not on
\* the configured allow-list, validate() returns an error result: error is
\* true, the flags are carried, and validStringTypes, equal to the allow-list,
\* is attached exactly when isOneOf is false; otherwise it returns
\* {error: false, payload: {isInRange: true, isOneOf: true}}.
C5_Claimed ==
    Validated =>
        LET short == TooShort(input.config, input.value)
            out == NotAllowed(input.config, input.value)
            flags == [isInRange |-> ~short, isOneOf |-> ~out]
        IN IF short \/ out
           THEN /\ "error" \in DOMAIN output
                /\ output.error = TRUE
                /\ output.payload = flags
                /\ out <=> "validStringTypes" \in DOMAIN output
                /\ out => output.validStringTypes = input.config.oneOf
           ELSE output = [error |-> FALSE, payload |-> flags]

-----------------------------------------------------------------------------
(* What a schema asks of a construction argument and of a call             *)

\* the value fails the rules configured for key; an attribute with no
\* validator fails when it is undefined or null
RuleViolated(schema, key, value) ==
    IF key \notin DOMAIN schema THEN value \in {undefined, null}
    ELSE CASE schema[key].kind = "NumberType" ->
                \/ ~IsNumeric(value)
                \/ value = NaN
                \/ /\ "range" \in DOMAIN schema[key].config
                   /\ ~Within(value, schema[key].config.range[1],
                              schema[key].config.range[2])
           [] schema[key].kind = "StringType" ->
                \/ /\ "minLength" \in DOMAIN schema[key].config
                   /\ ~(value.t = "str"
                        /\ Len(value.s) >= schema[key].config.minLength)
                \/ /\ "oneOf" \in DOMAIN schema[key].config
                   /\ value \notin Range(schema[key].config.oneOf)
           [] OTHER -> FALSE

RequiredConstructorParameters(schema) ==
    IF HasConstructorParameters(schema)
    THEN Range(schema["__constructorParameters"].items)
    ELSE {}

DeclaredParams(layer) ==
    IF HasRequiredParams(layer) THEN layer.requiredParams ELSE <<>>

DeclaredAttributes(layer) ==
    IF "requiredAttributes" \in DOMAIN layer THEN layer.requiredAttributes ELSE <<>>

\* the names of the declared attributes of tgt that fail their rules
FailedAttributes(schema, layer, tgt) ==
    {DeclaredAttributes(layer)[i].name : i \in
        {j \in 1..Len(DeclaredAttributes(layer)) :
            RuleViolated(schema, DeclaredAttributes(layer)[j].name,
                         AttributeValue(DeclaredAttributes(layer)[j], tgt))}}

\* every declared attribute has a field validator in the schema
AttributesHaveValidators(schema, layer) ==
    \A i \in 1..Len(DeclaredAttributes(layer)) :
        /\ DeclaredAttributes(layer)[i].name \in DOMAIN schema
        /\ schema[DeclaredAttributes(layer)[i].name].kind
              \in {"NumberType", "StringType"}

ParamsSupplied(layer, argumentObject) ==
    /\ IsObject(argumentObject)
    /\ Range(DeclaredParams(layer)) \subseteq DOMAIN argumentObject

ValidCall(schema, layer, tgt, argumentObject) ==
    /\ ParamsSupplied(layer, argumentObject)
    /\ AttributesHaveValidators(schema, layer)
    /\ FailedAttributes(schema, layer, tgt) = {}

\* what the class's own method returns for tgt and argumentObject
Unwrapped(method, tgt, argumentObject) ==
    [method |-> method, self |-> tgt.attrs, arg |-> argumentObject]

CalledOnce(before, after) ==
    after = [attrs |-> before.attrs, calls |-> before.calls + 1]

Called == last.op = "call"

Constructed == last.op = "construct"

\* the interceptor installed last on the method called
Outer == proto[last.method][Len(proto[last.method])]

-----------------------------------------------------------------------------
(* C1 *)

MissesRequired(schema, args) ==
    /\ HasConstructorParameters(schema)
    /\ IsObject(args)
    /\ ~(RequiredConstructorParameters(schema) \subseteq DOMAIN args)

\* C1: when the schema declares required constructor parameters and the
\* argument object lacks one of them, invoking the factory throws, the user's
\* constructor does not run and no instance is created.
C1_MissingParameterThrows ==
    [][(last'.op = "construct" /\ MissesRequired(validationObject, last'.arg)) =>
          /\ Threw(last'.value)
          /\ ctorRuns' = ctorRuns
          /\ target' = target]_vars

C1_Witness ==
    /\ Constructed
    /\ MissesRequired(validationObject, last.arg)
    /\ Threw(last.value)
    /\ last.value.message = "Mismatch constructor argument."

-----------------------------------------------------------------------------
(* C2 *)

MissingInOrder(layer, argumentObject) ==
    SelectSeq(layer.requiredParams, LAMBDA name : name \notin DOMAIN argumentObject)

\* C2: an intercepted method whose contract declares requiredParams, called
\* with an argument object that lacks a required name, returns the code 400
\* result listing exactly the missing names in declared order, and the
\* original method is not executed: the instance is as it was.
C2_MissingParameters ==
    (/\ Called
     /\ proto[last.method] # <<>>
     /\ HasRequiredParams(Outer)
     /\ IsObject(last.arg)
     /\ MissingInOrder(Outer, last.arg) # <<>>) =>
        /\ last.value =
             [error |-> TRUE,
              errorPayload |-> [code |-> 400,
                                data |-> MissingInOrder(Outer, last.arg),
                                message |-> "Parameters missing."]]
        /\ target = last.before

C2_Witness ==
    /\ Called
    /\ proto[last.method] # <<>>
    /\ HasRequiredParams(Outer)
    /\ last.arg = <<>>
    /\ last.value.errorPayload.data = <<"scale", "unit">>
    /\ target = last.before

-----------------------------------------------------------------------------
(* C3 *)

\* C3: a method intercepted once, called with an argument object that holds
\* every required parameter on an instance whose required attributes all pass
\* their field validators, runs the original method exactly once on that
\* instance with that argument and returns {error: false, result: r}, r being
\* what the unwrapped method returns for them.
C3_ValidCallDelegates ==
    (/\ Called
     /\ Len(proto[last.method]) = 1
     /\ ValidCall(validationObject, Outer, last.before, last.arg)) =>
        /\ last.value = [error |-> FALSE,
                         result |-> Unwrapped(last.method, last.before, last.arg)]
        /\ CalledOnce(last.before, target)

C3_Witness ==
    /\ Called
    /\ Len(proto[last.method]) = 1
    /\ HasRequiredParams(Outer)
    /\ HasRequiredAttributes(Outer)
    /\ ValidCall(validationObject, Outer, last.before, last.arg)
    /\ last.value.error = FALSE
    /\ target.calls = last.before.calls + 1

-----------------------------------------------------------------------------
(* C7 *)

\* a declared attribute that has no validator in the schema and that the
\* instance lacks
LacksUnvalidatedAttribute(schema, layer, tgt) ==
    \E i \in 1..Len(DeclaredAttributes(layer)) :
        /\ DeclaredAttributes(layer)[i].name \notin DOMAIN schema
        /\ Get(tgt.attrs, DeclaredAttributes(layer)[i].name) = undefined

\* C7: when the contract of an intercepted method requires an attribute that
\* has no validator in the schema and the instance lacks it, the call returns
\* an error result with the code 500, it does not throw, and the original
\* method is not executed.
C7_Claimed ==
    (/\ Called
     /\ Len(proto[last.method]) = 1
     /\ ParamsSupplied(Outer, last.arg)
     /\ LacksUnvalidatedAttribute(validationObject, Outer, last.before)) =>
        /\ ~Threw(last.value)
        /\ "code" \in DOMAIN last.value
        /\ last.value.error = TRUE
        /\ last.value.code = 500
        /\ target = last.before

-----------------------------------------------------------------------------
(* C8 *)

\* C8: in a call of an intercepted method the parameters are checked before
\* the attributes: with a parameter missing the result is the code 400 result
\* whatever the attributes are; with the parameters supplied every declared
\* attribute is validated, the call returns {error: true, code: 500,
\* errorPayload} keyed by exactly the attributes that failed when there is
\* one, and the original method is called only when there is none.
C8_Claimed ==
    (/\ Called
     /\ Len(proto[last.method]) = 1
     /\ IsObject(last.arg)) =>
        LET failed == FailedAttributes(validationObject, Outer, last.before) IN
        IF ~ParamsSupplied(Outer, last.arg)
        THEN /\ "errorPayload" \in DOMAIN last.value
             /\ "code" \in DOMAIN last.value.errorPayload
             /\ last.value.errorPayload.code = 400
             /\ target = last.before
        ELSE IF failed # {}
        THEN /\ "code" \in DOMAIN last.value
             /\ last.value.error = TRUE
             /\ last.value.code = 500
             /\ DOMAIN last.value.errorPayload = failed
             /\ target = last.before
        ELSE CalledOnce(last.before, target)

-----------------------------------------------------------------------------
(* C9 *)

\* the keys of the argument that the schema validates and that fail
FailedFields(schema, args) ==
    {k \in DOMAIN args \cap DOMAIN schema :
        /\ schema[k].kind \in {"NumberType", "StringType"}
        /\ RuleViolated(schema, k, args[k])}

\* C9: for an object argument that holds the required parameters, the
\* factory constructs and returns an instance if and only if no key of the
\* argument that the schema declares fails its rules; otherwise it throws
\* {error: true, errorPayload} keyed by exactly the failing keys and the
\* user's constructor does not run.
C9_Claimed ==
    (/\ Constructed
     /\ IsObject(last.arg)
     /\ RequiredConstructorParameters(validationObject) \subseteq DOMAIN last.arg) =>
        IF FailedFields(validationObject, last.arg) = {}
        THEN /\ last.value = Constructor(last.arg)
             /\ ctorRuns > 0
        ELSE /\ "error" \in DOMAIN last.value
             /\ last.value.error = TRUE
             /\ DOMAIN last.value.errorPayload =
                   FailedFields(validationObject, last.arg)

-----------------------------------------------------------------------------
(* C10 *)

\* proto' is proto with one interceptor put around each method that is a key
\* of the schema, the other methods being left as they are
WrappedOnce(schema, before, after) ==
    \A method \in MethodsOnClass :
        IF method \in DOMAIN schema
        THEN /\ Len(after[method]) = Len(before[method]) + 1
             /\ SubSeq(after[method], 1, Len(before[method])) = before[method]
             /\ after[method][Len(after[method])] = Layer(schema[method])
        ELSE after[method] = before[method]

\* C10: the method table changes only when wrapWithType(schema) is applied
\* to the class, and then each method that is a key of the schema gets one
\* more interceptor around what was installed and the others are unchanged;
\* factory invocations and method calls leave the table as it is; on a class
\* wrapped twice a valid call returns {error: false, result: {error: false,
\* result: r}}.
C10_MethodTable ==
    /\ [][(proto' # proto \/ wrapped' # wrapped) =>
             /\ wrapped' = wrapped + 1
             /\ last'.op = "wrap"
             /\ WrappedOnce(validationObject, proto, proto')]_vars
    /\ [][last'.op \in {"construct", "call"} => proto' = proto]_vars
    /\ []((/\ Called
           /\ Len(proto[last.method]) = 2
           /\ ValidCall(validationObject, Outer, last.before, last.arg)) =>
             last.value =
                [error |-> FALSE,
                 result |-> [error |-> FALSE,
                             result |-> Unwrapped(last.method, last.before,
                                                  last.arg)]])

C10_Witness ==
    /\ Called
    /\ wrapped = 2
    /\ Len(proto[last.method]) = 2
    /\ proto["describe"] = <<>>
    /\ ValidCall(validationObject, Outer, last.before, last.arg)
    /\ last.value.result.error = FALSE

====
